---- MODULE Spec2Model ----
(***************************************************************************)
(* A model of galoshes/meta.py: the AttributeMapper metaclass (AMMetaClass), *)
(* the configuration filter (SCFilter) and the caching base class           *)
(* (BaseSCCache).                                                           *)
(*                                                                         *)
(* The module is modelled as the interpreter runs it where the metaclass    *)
(* hook `__metaclass__ = AMMetaClass` takes effect: every class statement    *)
(* deriving from AttributeMapper goes through AMMetaClass.__new__ and        *)
(* every instantiation through AMMetaClass.__call__.  Python dictionaries    *)
(* are functions on a finite set of strings; the order in which a            *)
(* dictionary or a set is iterated is not fixed by the language and is a     *)
(* nondeterministic choice in every action that iterates one.                *)
(***************************************************************************)
EXTENDS Integers, Sequences, FiniteSets, TLC

VARIABLES classes,    \* the class table: every class that exists, by id
          defResult,  \* the outcome of the last class statement
          obj,        \* the instance the last successful construction returned
          callResult, \* the last call made: its arguments and its outcome
          filt        \* the SCFilter instance that has been built, and the
                      \* classes it was built from

vars == <<classes, defResult, obj, callResult, filt>>

-----------------------------------------------------------------------------
(* Python values                                                           *)

\* The None object.  A declaration slot, a rename or a coercer may be None.
PyNone == [t |-> "None"]

\* storedName and coercer slots hold a name, or "None" for Python's None.
NoName == "None"

\* An entry of initMap: the tuple (required, rename, coercer).
Decl(req, stored, coercer) ==
    [t |-> "tuple", required |-> req, storedName |-> stored, coercer |-> coercer]

\* The empty dict {} and dict.update.
EmptyDict == [k \in {} |-> PyNone]

DictUpdate(d, e) ==
    [k \in (DOMAIN d) \cup (DOMAIN e) |-> IF k \in DOMAIN e THEN e[k] ELSE d[k]]

\* All dicts with keys among K and values among V.
Dicts(K, V) == UNION {[S -> V] : S \in SUBSET K}

Reverse(s) == [i \in 1..Len(s) |-> s[Len(s) + 1 - i]]

SeqRange(s) == {s[i] : i \in 1..Len(s)}

-----------------------------------------------------------------------------
(* Classes                                                                 *)

\* Ids of the classes that exist once the module is imported.
ObjectId == 1
AttributeMapperId == 2
BaseSCCacheId == 3

\* type.__new__ computes the method resolution order by C3 linearisation
\* and raises TypeError when the bases admit none.
RECURSIVE C3Merge(_)
C3Merge(seqs) ==
    LET ne == SelectSeq(seqs, LAMBDA s : s /= <<>>)
    IN  IF ne = <<>> THEN [ok |-> TRUE, mro |-> <<>>]
        ELSE
          LET InTail(c) == \E i \in 1..Len(ne) : \E j \in 2..Len(ne[i]) : ne[i][j] = c
              cands == {i \in 1..Len(ne) : ~InTail(ne[i][1])}
          IN  IF cands = {} THEN [ok |-> FALSE, mro |-> <<>>]
              ELSE
                LET i == CHOOSE x \in cands : \A y \in cands : x <= y
                    c == ne[i][1]
                    rest == [k \in 1..Len(ne) |->
                               IF ne[k][1] = c THEN Tail(ne[k]) ELSE ne[k]]
                    r == C3Merge(rest)
                IN  [ok |-> r.ok, mro |-> <<c>> \o r.mro]

Linearise(tbl, id, bases) ==
    LET r == C3Merge([i \in 1..Len(bases) |-> tbl[bases[i]].mro] \o <<bases>>)
    IN  [ok |-> r.ok, mro |-> <<id>> \o r.mro]

\* getattr(cls, name, default): the first class of cls's method resolution
\* order whose own namespace holds the name decides.
RECURSIVE LookupFrom(_, _, _, _, _)
LookupFrom(tbl, mro, i, name, default) ==
    IF i > Len(mro) THEN default
    ELSE IF name \in DOMAIN tbl[mro[i]].dict THEN tbl[mro[i]].dict[name]
    ELSE LookupFrom(tbl, mro, i + 1, name, default)

GetAttr(tbl, c, name, default) == LookupFrom(tbl, tbl[c].mro, 1, name, default)

\* attrs.get(name, default)
AttrsGet(attrs, name, default) ==
    IF name \in DOMAIN attrs THEN attrs[name] ELSE default

\* Lines 37-39: `for key in initMap: if initMap[key] is None: del(initMap[key])`.
\* Deleting from a dict while iterating over it makes the iterator's next step
\* raise RuntimeError ("dictionary changed size during iteration"), also when
\* the deleted key was the last one; so the loop completes exactly when no
\* value is None, and then it leaves the dict as it is.
PruneNone(initMap) ==
    IF \E k \in DOMAIN initMap : initMap[k] = PyNone
    THEN [ok |-> FALSE, err |-> "RuntimeError", map |-> initMap]
    ELSE [ok |-> TRUE, err |-> "", map |-> initMap]

\* Lines 34-39: overlay the maps in order, pruning after each overlay.
RECURSIVE OverlayMaps(_, _, _)
OverlayMaps(baseMaps, i, acc) ==
    IF i > Len(baseMaps) THEN [ok |-> TRUE, err |-> "", map |-> acc]
    ELSE LET p == PruneNone(DictUpdate(acc, baseMaps[i]))
         IN  IF p.ok THEN OverlayMaps(baseMaps, i + 1, p.map) ELSE p

\* Lines 31-32: the bases' initMaps, reversed, then the class's own.
BaseMaps(tbl, bases, attrs) ==
    Reverse([i \in 1..Len(bases) |-> GetAttr(tbl, bases[i], "initMap", EmptyDict)])
      \o <<AttrsGet(attrs, "initMap", EmptyDict)>>

\* Lines 43-44: the union of the bases' maskKeys and the class's own.
MergedMaskKeysOwnOnly(tbl, bases, attrs) == AttrsGet(attrs, "maskKeys", {})

\* reduce() without an initial value raises TypeError on an empty sequence.
MergedMaskKeys(tbl, bases, attrs) ==
    UNION {GetAttr(tbl, bases[i], "maskKeys", {}) : i \in 1..Len(bases)}
      \cup AttrsGet(attrs, "maskKeys", {})

\* AMMetaClass.__new__(mcs, name, bases, attrs), for the class that gets `id`.
MetaNew(tbl, id, bases, attrs) ==
    LET merged   == OverlayMaps(BaseMaps(tbl, bases, attrs), 1, EmptyDict)
        maskKeys == MergedMaskKeys(tbl, bases, attrs)
        attrs1   == DictUpdate(attrs, [n \in {"initMap"} |-> merged.map])
        attrs2   == IF maskKeys /= {}
                    THEN DictUpdate(attrs1, [n \in {"maskKeys"} |-> maskKeys])
                    ELSE attrs1
        lin      == Linearise(tbl, id, bases)
        NoClass  == [bases |-> bases, mro |-> <<>>, own |-> attrs, dict |-> attrs]
    IN  IF ~merged.ok THEN [ok |-> FALSE, err |-> merged.err, cls |-> NoClass]
        ELSE IF bases = <<>> THEN [ok |-> FALSE, err |-> "TypeError", cls |-> NoClass]
        ELSE IF ~lin.ok THEN [ok |-> FALSE, err |-> "TypeError", cls |-> NoClass]
        ELSE [ok |-> TRUE, err |-> "",
              cls |-> [bases |-> bases, mro |-> lin.mro, own |-> attrs, dict |-> attrs2]]

\* `object`: no bases, an empty namespace as far as this module is concerned.
ObjectClass ==
    [bases |-> <<>>, mro |-> <<ObjectId>>, own |-> EmptyDict, dict |-> EmptyDict]

\* class AttributeMapper(object): declares no initMap of its own.
AttributeMapperAttrs == EmptyDict

\* class BaseSCCache(AttributeMapper): maskKeys = set(); cacheItems = [].
BaseSCCacheAttrs ==
    [n \in {"maskKeys", "cacheItems"} |-> IF n = "maskKeys" THEN {} ELSE <<>>]

\* The class table after `import galoshes.meta`.
ImportedClasses ==
    LET t1 == <<ObjectClass>>
        t2 == Append(t1, MetaNew(t1, AttributeMapperId, <<ObjectId>>,
                                 AttributeMapperAttrs).cls)
    IN  Append(t2, MetaNew(t2, BaseSCCacheId, <<AttributeMapperId>>,
                           BaseSCCacheAttrs).cls)

NoResult == [op |-> "none", ok |-> TRUE, err |-> ""]

\* No SCFilter instance: none has been built, or SCFilter(clslist) raised.
NoFilter == [built |-> FALSE, required |-> {}, optional |-> {}]

\* No instance: nothing has been constructed, or the construction raised.
NoObj == [cls |-> 0, attrs |-> EmptyDict]

\* A class statement `class X(bases): attrs`: the class is bound only when
\* the metaclass returns one.  Class statements run while a module is being
\* imported: an exception raised by one is not handled and ends the run.
DefineClass(bases, attrs) ==
    /\ defResult.ok
    /\ \E r \in {MetaNew(classes, Len(classes) + 1, bases, attrs)} :
        /\ classes' = IF r.ok THEN Append(classes, r.cls) ELSE classes
        /\ defResult' = [op |-> "class", ok |-> r.ok, err |-> r.err,
                         bases |-> bases, attrs |-> attrs]

-----------------------------------------------------------------------------
(* Class definition: hierarchies of AttributeMapper subclasses             *)

\* Bounds of the hierarchies explored.
MaxUserClasses == 4
MaxBases == 2

\* The keys declared in the hierarchies, and the declarations made for them.
MetaKeys == {"k"}
MetaDecls == {Decl(TRUE, NoName, NoName), Decl(FALSE, "_r", "np.float64"), PyNone}

\* The base lists of a class statement (an empty one, for a class that names
\* AMMetaClass as its metaclass and no base).
BaseSeqs(ids) == UNION {[1..n -> ids] : n \in 0..MaxBases}

MapperIds == AttributeMapperId..Len(classes)

InitMeta ==
    /\ classes = ImportedClasses
    /\ defResult = NoResult
    /\ obj = NoObj
    /\ callResult = NoResult
    /\ filt = [self |-> NoFilter, clslist |-> <<>>]

DefineMapper ==
    /\ defResult.ok
    /\ Len(classes) < Len(ImportedClasses) + MaxUserClasses
    /\ \E bases \in BaseSeqs(MapperIds \ {BaseSCCacheId}) :
       \E attrs \in {EmptyDict} \cup
                     {[n \in {"initMap"} |-> own] : own \in Dicts(MetaKeys, MetaDecls)} :
          /\ DefineClass(bases, attrs)
          /\ UNCHANGED <<obj, callResult, filt>>

NextMeta == DefineMapper

SpecMeta == InitMeta /\ [][NextMeta]_vars

-----------------------------------------------------------------------------
(* Claims about class definition                                           *)

UserClassIds == (Len(ImportedClasses) + 1)..Len(classes)

\* The declaration for k made by the nearest class of the method resolution
\* order that declares k in its own initMap; PyNone when none declares it.
RECURSIVE NearestDecl(_, _, _, _)
NearestDecl(tbl, mro, i, k) ==
    IF i > Len(mro) THEN PyNone
    ELSE LET own == AttrsGet(tbl[mro[i]].own, "initMap", EmptyDict)
         IN  IF k \in DOMAIN own THEN own[k] ELSE NearestDecl(tbl, mro, i + 1, k)

\* The keys the bases of the last class statement hand down.
InheritedKeys ==
    UNION {DOMAIN GetAttr(classes, defResult.bases[i], "initMap", EmptyDict) :
             i \in 1..Len(defResult.bases)}

\* The keys the last class statement declares as None.
RetractedKeys ==
    LET own == AttrsGet(defResult.attrs, "initMap", EmptyDict)
    IN  {k \in DOMAIN own : own[k] = PyNone}

\* C5: a class statement that declares an inherited key as None succeeds, the
\* new class's merged initMap does not hold that key, and every other key the
\* bases hand down is still in it.
C5_RetractionRemovesKey ==
    (/\ defResult.op = "class"
     /\ defResult.bases /= <<>>
     /\ Linearise(classes, 0, defResult.bases).ok
     /\ RetractedKeys \cap InheritedKeys /= {})
    => /\ defResult.ok
       /\ LET merged == classes[Len(classes)].dict["initMap"]
          IN  /\ RetractedKeys \cap DOMAIN merged = {}
              /\ InheritedKeys \ RetractedKeys \subseteq DOMAIN merged

\* C6: in every class, the merged initMap holds for each key the declaration
\* of the nearest class in the method resolution order that declares the key
\* (and no entry for a key that no class of the order declares).
C6_MergeFollowsMRO ==
    \A c \in UserClassIds : \A k \in MetaKeys :
       LET merged  == classes[c].dict["initMap"]
           nearest == NearestDecl(classes, classes[c].mro, 1, k)
       IN  IF nearest = PyNone THEN k \notin DOMAIN merged
           ELSE k \in DOMAIN merged /\ merged[k] = nearest

-----------------------------------------------------------------------------
(* Configuration values and coercers                                       *)

\* The values a configuration holds: Python str, complex, float and int
\* objects, and dicts, which have an identity besides their content.
PyStr(s) == [t |-> "str", s |-> s]
PyComplex(re, im) == [t |-> "complex", re |-> re, im |-> im]
PyFloat(v) == [t |-> "float", v |-> v]
PyInt(v) == [t |-> "int", v |-> v]
PyDict(id, d) == [t |-> "dict", id |-> id, d |-> d]

Raise(err, line, key) == [ok |-> FALSE, err |-> err, line |-> line, key |-> key]
Return(val) == [ok |-> TRUE, val |-> val]

\* The strings that spell a number, and the number they spell.
NumericStrings == {"10"}
NumberOf(s) == 10

\* obj.initMap[key][2](x) for the coercers np.float64 and np.int64: a string
\* is parsed (ValueError when it spells no number), a complex is refused
\* with TypeError, a float or an int is converted.
ApplyCoercer(f, x) ==
    LET Make(v) == IF f = "np.float64" THEN PyFloat(v) ELSE PyInt(v)
    IN  CASE x.t = "str" -> IF x.s \in NumericStrings THEN Return(Make(NumberOf(x.s)))
                            ELSE Raise("ValueError", 73, "")
          [] x.t = "complex" -> Raise("TypeError", 73, "")
          [] OTHER -> Return(Make(x.v))

\* np.iscomplex(x): true of a value with a non-zero imaginary part.
NpIsComplex(x) == x.t = "complex" /\ x.im /= 0

\* issubclass(newtype, np.floating)
IsNpFloating(f) == f = "np.float64"

\* x.real
RealPart(x) == PyFloat(x.re)

\* Lines 66-77: the function `typer` that __call__ builds for a key.
RECURSIVE Typer(_, _)
Typer(f, x) ==
    IF f = NoName THEN Return(x)
    ELSE LET r == ApplyCoercer(f, x)
         IN  IF r.ok THEN r
             ELSE IF r.err = "TypeError" /\ NpIsComplex(x) /\ IsNpFloating(f)
                  THEN Typer(f, RealPart(x))
                  ELSE r

-----------------------------------------------------------------------------
(* Instances                                                               *)

\* setattr(obj, name, value) on the instance's attribute dict.
SetAttr(attrs, name, value) == DictUpdate(attrs, [n \in {name} |-> value])

\* delattr(obj, name)
DelAttr(attrs, name) == [n \in (DOMAIN attrs) \ {name} |-> attrs[n]]

\* hasattr(obj, name), for a name that no class defines (the names listed in
\* cacheItems are names of instance attributes): the instance's own dict
\* decides.
HasAttr(attrs, name) == name \in DOMAIN attrs

\* BaseSCCache.clearCache, from the i-th entry of cacheItems on.
ClearFirstOnly(attrs, items, i) ==
    IF i > Len(items) THEN attrs
    ELSE IF HasAttr(attrs, items[i]) THEN DelAttr(attrs, items[i]) ELSE attrs

RECURSIVE ClearFrom(_, _, _)
ClearFrom(attrs, items, i) ==
    IF i > Len(items) THEN attrs
    ELSE IF HasAttr(attrs, items[i])
         THEN ClearFrom(DelAttr(attrs, items[i]), items, i + 1)
         ELSE ClearFrom(attrs, items, i + 1)

\* An instance while a call works on it: its attribute dict, and the log of
\* what the call has done to the cached configuration so far.
ClearCache(tbl, c, self) ==
    [attrs |-> ClearFrom(self.attrs, GetAttr(tbl, c, "cacheItems", <<>>), 1),
     log   |-> Append(self.log, "clearCache")]

\* The setter of the property BaseSCCache.systemConfig.
SetSystemConfig(tbl, c, self, value) ==
    ClearCache(tbl, c, [attrs |-> SetAttr(self.attrs, "_systemConfig", value),
                        log   |-> Append(self.log, "_systemConfig")])

\* Line 214: the dict comprehension builds a new dict.
MaskedCopy(tbl, c, systemConfig) ==
    LET maskKeys == GetAttr(tbl, c, "maskKeys", {})
    IN  PyDict(systemConfig.id + 1,
               [key \in (DOMAIN systemConfig.d) \ maskKeys |-> systemConfig.d[key]])

\* BaseSCCache.__init__(self, systemConfig)
CacheInit(tbl, c, self, systemConfig) ==
    SetSystemConfig(tbl, c, self, MaskedCopy(tbl, c, systemConfig))

\* obj.__init__(*args): BaseSCCache.__init__ for a class that derives from
\* BaseSCCache, AttributeMapper.__init__ (which does nothing) otherwise.
RunInit(tbl, c, self, systemConfig) ==
    IF BaseSCCacheId \in SeqRange(tbl[c].mro)
    THEN CacheInit(tbl, c, self, systemConfig)
    ELSE self

\* obj.initMap[key][0]: whether the declaration marks the key required.
IsRequiredWrongSlot(d) == d.storedName /= NoName

IsRequired(d) == d.required

\* Lines 79-82: the attribute a key's value is stored under.
StoredAsKey(key, d) == key

StoredAs(key, d) == IF d.storedName = NoName THEN key ELSE d.storedName

\* Lines 62-82: the loop over obj.initMap.keys(), taken in `order`, from its
\* i-th key on.
RECURSIVE MapKeys(_, _, _, _, _)
MapKeys(initMap, systemConfig, order, i, attrs) ==
    IF i > Len(order)
    THEN [ok |-> TRUE, err |-> "", line |-> 0, key |-> "", attrs |-> attrs]
    ELSE
      LET key == order[i]
      IN  IF key \notin DOMAIN systemConfig /\ IsRequired(initMap[key])
          THEN [ok |-> FALSE, err |-> "ValueError", line |-> 64, key |-> key, attrs |-> attrs]
          ELSE IF key \in DOMAIN systemConfig
          THEN LET v == Typer(initMap[key].coercer, systemConfig[key])
                   name == StoredAs(key, initMap[key])
               IN  IF v.ok
                   THEN MapKeys(initMap, systemConfig, order, i + 1, SetAttr(attrs, name, v.val))
                   ELSE [ok |-> FALSE, err |-> v.err, line |-> v.line, key |-> key,
                         attrs |-> attrs]
          ELSE MapKeys(initMap, systemConfig, order, i + 1, attrs)

\* AMMetaClass.__call__(cls, *args): `order` is the order in which
\* obj.initMap.keys() yields the keys.
MetaCall(tbl, c, args, order) ==
    IF args = <<>>
    THEN [ok |-> FALSE, err |-> "TypeError", line |-> 55, key |-> "",
          attrs |-> EmptyDict, log |-> <<>>]
    ELSE LET m == MapKeys(GetAttr(tbl, c, "initMap", EmptyDict), args[1].d, order, 1,
                          EmptyDict)
             self == RunInit(tbl, c, [attrs |-> m.attrs, log |-> <<>>], args[1])
         IN  IF m.ok
             THEN [ok |-> TRUE, err |-> "", line |-> 0, key |-> "",
                   attrs |-> self.attrs, log |-> self.log]
             ELSE [ok |-> FALSE, err |-> m.err, line |-> m.line, key |-> m.key,
                   attrs |-> m.attrs, log |-> <<>>]

\* The orders in which a set can be iterated.
Orders(S) == {o \in [1..Cardinality(S) -> S] : \A i, j \in DOMAIN o : o[i] = o[j] => i = j}

\* X(*args) for a class X of the table.  An exception leaves the caller
\* without an instance.
Construct(c, args) ==
    \E order \in Orders(DOMAIN GetAttr(classes, c, "initMap", EmptyDict)) :
       \E r \in {MetaCall(classes, c, args, order)} :
           /\ obj' = IF r.ok THEN [cls |-> c, attrs |-> r.attrs] ELSE NoObj
           /\ callResult' = [op |-> "construct", cls |-> c, args |-> args, ok |-> r.ok,
                             err |-> r.err, line |-> r.line, key |-> r.key,
                             log |-> r.log]
           /\ UNCHANGED <<classes, defResult, filt>>

-----------------------------------------------------------------------------
(* Construction of mapped objects                                          *)

\* The number of keys the registries and the configurations range over.
NumKeys == 2
KeyNames == <<"a", "b", "c">>
CKeys == {KeyNames[i] : i \in 1..NumKeys}

\* The declarations: required or not; stored under the key itself, under
\* "_r", or under "a" (the name of a key); uncoerced or coerced.
CDecls == {Decl(req, stored, f) : req \in BOOLEAN, stored \in {NoName, "_r", "a"},
                                  f \in {NoName, "np.float64", "np.int64"}}

\* The configuration values: '10', 'x', 3+4j and 3+0j.
CValues == {PyStr("10"), PyStr("x"), PyComplex(3, 4), PyComplex(3, 0)}

ConfigId == 1

InitConstruct ==
    /\ \E reg \in Dicts(CKeys, CDecls) :
          classes = Append(ImportedClasses,
                           MetaNew(ImportedClasses, Len(ImportedClasses) + 1,
                                   <<AttributeMapperId>>, [n \in {"initMap"} |-> reg]).cls)
    /\ defResult = NoResult
    /\ obj = NoObj
    /\ callResult = NoResult
    /\ filt = [self |-> NoFilter, clslist |-> <<>>]

\* A run makes one call: calls share nothing but the class table, which no
\* call changes.
CallMapper ==
    /\ callResult.op = "none"
    /\ \E c \in UserClassIds :
       \E args \in {<<>>} \cup {<<PyDict(ConfigId, d)>> : d \in Dicts(CKeys, CValues)} :
          Construct(c, args)

NextConstruct == CallMapper

SpecConstruct == InitConstruct /\ [][NextConstruct]_vars

-----------------------------------------------------------------------------
(* Claims about construction                                               *)

\* The last call was X(config) for a class X, with a configuration.
Constructed == callResult.op = "construct" /\ callResult.args /= <<>>

Registry == GetAttr(classes, callResult.cls, "initMap", EmptyDict)
Config == callResult.args[1].d

\* The keys that are declared and present in the configuration.
PresentKeys == (DOMAIN Registry) \cap (DOMAIN Config)

\* The error kinds: the ValueError of line 64 is MissingRequiredKey, an
\* exception out of the coercer (line 73) a CoercionError.
MissingRequiredKey ==
    ~callResult.ok /\ callResult.err = "ValueError" /\ callResult.line = 64
CoercionError == ~callResult.ok /\ callResult.line = 73

\* What C9 says coercion yields: f(x); f(real part of x) when x is complex, f
\* is a real floating type and f(x) raises TypeError; f's error otherwise.
ClaimedCoercion(f, x) ==
    LET r == ApplyCoercer(f, x)
    IN  IF r.ok THEN r
        ELSE IF r.err = "TypeError" /\ x.t = "complex" /\ IsNpFloating(f)
             THEN ApplyCoercer(f, RealPart(x))
             ELSE r

\* The coercion of every declared key of the configuration behaves as C9
\* claims (the inputs on which C1 is not affected by what C9 is about).
CoercionAsClaimed ==
    \A j \in PresentKeys :
       Registry[j].coercer /= NoName =>
          Typer(Registry[j].coercer, Config[j]) = ClaimedCoercion(Registry[j].coercer, Config[j])

\* C1 as claimed: with a required key k missing from the configuration the
\* construction fails with MissingRequiredKey, whatever the other keys'
\* coercers do; with k present it never fails with MissingRequiredKey for k.
C1_MissingRequiredAlwaysReported ==
    (Constructed /\ CoercionAsClaimed) =>
      \A k \in DOMAIN Registry : Registry[k].required =>
         /\ k \notin DOMAIN Config => MissingRequiredKey
         /\ k \in DOMAIN Config => ~(MissingRequiredKey /\ callResult.key = k)

\* C1 (amended): with a required key k missing from the configuration the
\* construction returns no instance: it fails with MissingRequiredKey for a
\* required key the configuration lacks, or with the error that the coercer
\* of a declared key present in the configuration raised; with k present it
\* never fails with MissingRequiredKey for k.
C1_MissingRequiredFails ==
    Constructed =>
      \A k \in DOMAIN Registry : Registry[k].required =>
         /\ k \notin DOMAIN Config =>
              \/ /\ MissingRequiredKey
                 /\ callResult.key \in (DOMAIN Registry) \ (DOMAIN Config)
                 /\ Registry[callResult.key].required
              \/ /\ CoercionError
                 /\ callResult.key \in PresentKeys
                 /\ LET r == Typer(Registry[callResult.key].coercer, Config[callResult.key])
                    IN  ~r.ok /\ r.err = callResult.err
         /\ k \in DOMAIN Config => ~(MissingRequiredKey /\ callResult.key = k)

\* A required key is missing, another key's coercer fails on its value, and
\* the construction reported the missing key.
C1_Witness ==
    /\ Constructed
    /\ MissingRequiredKey
    /\ \E j \in PresentKeys : ~Typer(Registry[j].coercer, Config[j]).ok

\* No other declared key that the configuration holds is stored under the
\* name k is renamed to, nor under the name k itself.
NoClash(k) ==
    /\ Registry[k].storedName /= k
    /\ \A j \in PresentKeys \ {k} :
          StoredAs(j, Registry[j]) \notin {Registry[k].storedName, k}

RenamedAt(k) ==
    /\ Registry[k].storedName \in DOMAIN obj.attrs
    /\ obj.attrs[Registry[k].storedName] = Typer(Registry[k].coercer, Config[k]).val
    /\ k \notin DOMAIN obj.attrs

\* C8 as claimed: after a successful construction, every declared key k with a
\* storedName r that the configuration holds has its coerced value at
\* attribute r, and the instance has no attribute named k.
C8_RenamedAttribute ==
    (Constructed /\ callResult.ok) =>
      \A k \in PresentKeys : Registry[k].storedName /= NoName => RenamedAt(k)

\* C8 (amended): the same, for the keys k whose storedName differs from k and
\* for which no other declared key present in the configuration is stored
\* under r or under k.
C8_RenamedAttributeNoClash ==
    (Constructed /\ callResult.ok) =>
      \A k \in PresentKeys :
         (Registry[k].storedName /= NoName /\ NoClash(k)) => RenamedAt(k)

\* A renamed key was mapped next to another declared key of the configuration.
C8_Witness ==
    /\ Constructed
    /\ callResult.ok
    /\ \E k \in PresentKeys :
          /\ Registry[k].storedName /= NoName
          /\ NoClash(k)
          /\ PresentKeys \ {k} /= {}

\* No other declared key of the configuration is stored under k's attribute.
AloneAt(k) ==
    \A j \in PresentKeys \ {k} : StoredAs(j, Registry[j]) /= StoredAs(k, Registry[k])

\* C9: for every declared key k with a coercer f that the configuration
\* holds: when the claimed coercion yields a value, the construction does not
\* fail at k, and an instance that is returned holds that value; when it
\* yields an error, no instance is returned and a failure at k is that error.
C9_Coercion ==
    Constructed =>
      \A k \in PresentKeys : Registry[k].coercer /= NoName =>
         LET want == ClaimedCoercion(Registry[k].coercer, Config[k])
         IN  IF want.ok
             THEN /\ ~(~callResult.ok /\ callResult.key = k)
                  /\ (callResult.ok /\ AloneAt(k)) =>
                        obj.attrs[StoredAs(k, Registry[k])] = want.val
             ELSE /\ ~callResult.ok
                  /\ callResult.key = k => (CoercionError /\ callResult.err = want.err)

-----------------------------------------------------------------------------
(* SCFilter                                                                *)

\* issubclass(cls, AttributeMapper)
IsMapper(tbl, c) == AttributeMapperId \in SeqRange(tbl[c].mro)

\* AttributeMapper.required and AttributeMapper.optional, for the class c.
Required(tbl, c) ==
    LET initMap == GetAttr(tbl, c, "initMap", EmptyDict)
    IN  {key \in DOMAIN initMap : IsRequired(initMap[key])}

Optional(tbl, c) ==
    LET initMap == GetAttr(tbl, c, "initMap", EmptyDict)
    IN  {key \in DOMAIN initMap : ~IsRequired(initMap[key])}

\* set.symmetric_difference_update
SymmetricDifference(S, T) == (S \ T) \cup (T \ S)

\* SCFilter.__init__(self, clslist).  A class has no __contains__, so a single
\* class is wrapped in a list; reduce() raises TypeError when no class of the
\* list derives from AttributeMapper.
FilterInit(tbl, clslist) ==
    LET mappers  == SelectSeq(clslist, LAMBDA c : IsMapper(tbl, c))
        required == UNION {Required(tbl, mappers[i]) : i \in 1..Len(mappers)}
        optional == UNION {Optional(tbl, mappers[i]) : i \in 1..Len(mappers)}
    IN  IF mappers = <<>>
        THEN [ok |-> FALSE, err |-> "TypeError", line |-> 179, self |-> NoFilter]
        ELSE [ok |-> TRUE, err |-> "", line |-> 0,
              self |-> [built |-> TRUE, required |-> required,
                        optional |-> SymmetricDifference(optional, required)]]

\* Line 199: the keys the returned dict is built from.
FilterKeysOptionalOnly(self) == self.optional

FilterKeys(self) == self.required \cup self.optional

\* SCFilter.__call__(self, systemConfig).  The message of line 197 reads the
\* name `cls`, which is bound neither in __call__ nor in the module: reaching
\* the raise statement raises NameError, whichever required key is missing.
FilterCall(self, systemConfig) ==
    IF \E key \in self.required : key \notin DOMAIN systemConfig.d
    THEN [ok |-> FALSE, err |-> "NameError", line |-> 197, cls |-> 0,
          val |-> PyDict(0, EmptyDict)]
    ELSE [ok |-> TRUE, err |-> "", line |-> 0, cls |-> 0,
          val |-> PyDict(systemConfig.id + 1,
                         [key \in FilterKeys(self) \cap DOMAIN systemConfig.d |->
                            systemConfig.d[key]])]

\* SCFilter(arg), arg a class or a list of classes.
BuildFilter(arg) ==
    \E r \in {FilterInit(classes, IF arg.single THEN <<arg.cls>> ELSE arg.list)} :
       /\ filt' = [self |-> r.self,
                   clslist |-> IF arg.single THEN <<arg.cls>> ELSE arg.list]
       /\ callResult' = [op |-> "SCFilter", arg |-> arg, ok |-> r.ok, err |-> r.err,
                         line |-> r.line]
       /\ UNCHANGED <<classes, defResult, obj>>

\* filt(systemConfig)
ApplyFilter(systemConfig) ==
    /\ filt.self.built
    /\ \E r \in {FilterCall(filt.self, systemConfig)} :
          callResult' = [op |-> "filter", clslist |-> filt.clslist, arg |-> systemConfig,
                         ok |-> r.ok, err |-> r.err, line |-> r.line, cls |-> r.cls,
                         val |-> r.val]
    /\ UNCHANGED <<classes, defResult, obj, filt>>

-----------------------------------------------------------------------------
(* Filters over AttributeMapper subclasses                                 *)

\* The longest list of classes a filter is built from.
MaxClsList == 2

\* The keys declared by the two classes, and a key neither declares.
FKeys == {"a", "b"}
FConfigKeys == FKeys \cup {"z"}
FDecls == {Decl(TRUE, NoName, NoName), Decl(FALSE, NoName, NoName)}
FValue == PyStr("10")

\* Two subclasses of AttributeMapper, each with a registry of its own.
InitFilter ==
    /\ \E reg1, reg2 \in Dicts(FKeys, FDecls) :
          LET n  == Len(ImportedClasses)
              t1 == Append(ImportedClasses,
                           MetaNew(ImportedClasses, n + 1, <<AttributeMapperId>>,
                                   [x \in {"initMap"} |-> reg1]).cls)
          IN  classes = Append(t1, MetaNew(t1, n + 2, <<AttributeMapperId>>,
                                           [x \in {"initMap"} |-> reg2]).cls)
    /\ defResult = NoResult
    /\ obj = NoObj
    /\ callResult = NoResult
    /\ filt = [self |-> NoFilter, clslist |-> <<>>]

ClassIds == 1..Len(classes)

\* A filter is built once; it is then applied to one configuration.
NewFilter ==
    /\ callResult.op = "none"
    /\ \/ \E c \in ClassIds : BuildFilter([single |-> TRUE, cls |-> c, list |-> <<>>])
       \/ \E n \in 0..MaxClsList : \E l \in [1..n -> ClassIds] :
             BuildFilter([single |-> FALSE, cls |-> 0, list |-> l])

CallFilter ==
    /\ callResult.op = "SCFilter"
    /\ \E d \in Dicts(FConfigKeys, {FValue}) : ApplyFilter(PyDict(ConfigId, d))

NextFilter == NewFilter \/ CallFilter

SpecFilter == InitFilter /\ [][NextFilter]_vars

-----------------------------------------------------------------------------
(* Claims about filters                                                    *)

\* The classes of the filter's list that derive from AttributeMapper.
Participants == {c \in SeqRange(filt.clslist) : IsMapper(classes, c)}

UnionRequired == UNION {Required(classes, c) : c \in Participants}
UnionOptional == UNION {Optional(classes, c) : c \in Participants}

\* C2: a filter built from a non-empty collection of participating classes
\* has required = the union of their required sets and optional = the union
\* of their optional sets minus required; no key is in both.
C2_FilterSets ==
    (callResult.op = "SCFilter" /\ Participants /= {}) =>
       /\ callResult.ok
       /\ filt.self.required = UnionRequired
       /\ filt.self.optional = UnionOptional \ UnionRequired
       /\ filt.self.required \cap filt.self.optional = {}

\* C3: applied to a configuration that holds every required key, the filter
\* returns a new dict whose keys are exactly the keys of the configuration
\* that are in the union of the classes' required and optional sets, each
\* with the configuration's value.
C3_FilterOutput ==
    (/\ callResult.op = "filter"
     /\ UnionRequired \subseteq DOMAIN callResult.arg.d)
    => /\ callResult.ok
       /\ callResult.val.id /= callResult.arg.id
       /\ DOMAIN callResult.val.d =
             (UnionRequired \cup UnionOptional) \cap DOMAIN callResult.arg.d
       /\ \A key \in DOMAIN callResult.val.d :
             callResult.val.d[key] = callResult.arg.d[key]

\* A filter over a class that requires a key and a class for which the same
\* key is optional was applied to a configuration that holds the key, an
\* optional key and an undeclared key.
C3_Witness ==
    /\ callResult.op = "filter"
    /\ callResult.ok
    /\ UnionRequired \cap UnionOptional /= {}
    /\ UnionOptional \ UnionRequired /= {}
    /\ (UnionOptional \ UnionRequired) \cap DOMAIN callResult.arg.d /= {}
    /\ (DOMAIN callResult.arg.d) \ (UnionRequired \cup UnionOptional) /= {}

\* C4: applied to a configuration that lacks a required key, the filter fails
\* with MissingRequiredKey (the ValueError construction raises), reporting a
\* class the filter was built from.
C4_FilterMissingKey ==
    (/\ callResult.op = "filter"
     /\ ~(UnionRequired \subseteq DOMAIN callResult.arg.d))
    => /\ ~callResult.ok
       /\ callResult.err = "ValueError"
       /\ callResult.cls \in Participants

-----------------------------------------------------------------------------
(* Cached objects: class definition and construction                       *)

\* The number of subclasses of BaseSCCache defined.
MaxCacheClasses == 2

\* What a subclass of BaseSCCache declares: maskKeys, cacheItems and an
\* initMap, each or none of them.
MaskChoices == {{"a"}, {"b"}}
CacheItemChoices == {<<"_a">>}
CacheInitMaps == {[k \in {"a"} |-> Decl(FALSE, "_a", NoName)]}

OptionalAttr(name, choices) ==
    {EmptyDict} \cup {[n \in {name} |-> v] : v \in choices}

CacheAttrs ==
    {DictUpdate(DictUpdate(m, ci), im) :
        m \in OptionalAttr("maskKeys", MaskChoices),
        ci \in OptionalAttr("cacheItems", CacheItemChoices),
        im \in OptionalAttr("initMap", CacheInitMaps)}

CacheIds == BaseSCCacheId..Len(classes)

InitCached ==
    /\ classes = ImportedClasses
    /\ defResult = NoResult
    /\ obj = NoObj
    /\ callResult = NoResult
    /\ filt = [self |-> NoFilter, clslist |-> <<>>]

\* Classes are defined before the instance is constructed.
DefineCache ==
    /\ defResult.ok
    /\ callResult.op = "none"
    /\ Len(classes) < Len(ImportedClasses) + MaxCacheClasses
    /\ \E bases \in BaseSeqs(CacheIds) : \E attrs \in CacheAttrs :
          /\ DefineClass(bases, attrs)
          /\ UNCHANGED <<obj, callResult, filt>>

CallCached ==
    /\ defResult.ok
    /\ callResult.op = "none"
    /\ \E c \in CacheIds : \E d \in Dicts({"a", "b"}, {FValue}) :
          Construct(c, <<PyDict(ConfigId, d)>>)

NextCached == DefineCache \/ CallCached

SpecCached == InitCached /\ [][NextCached]_vars

-----------------------------------------------------------------------------
(* Claims about the construction of cached objects                         *)

\* The union of the maskKeys that the class c and its ancestors declare.
DeclaredMaskKeys(c) ==
    UNION {AttrsGet(classes[classes[c].mro[i]].own, "maskKeys", {}) :
             i \in 1..Len(classes[c].mro)}

\* C10: right after X(config) for a subclass X of BaseSCCache, the stored
\* configuration is a dict other than config that holds exactly the entries of
\* config whose keys are in no maskKeys set of X or of an ancestor of X, and
\* clearCache has run once, after the copy was stored (so no attribute that
\* cacheItems lists is left, not even one the construction had mapped).
C10_StoredConfiguration ==
    (callResult.op = "construct" /\ callResult.ok) =>
       LET config == callResult.args[1]
           masked == DeclaredMaskKeys(callResult.cls)
       IN  /\ "_systemConfig" \in DOMAIN obj.attrs
           /\ obj.attrs["_systemConfig"].id /= config.id
           /\ obj.attrs["_systemConfig"].d =
                 [key \in (DOMAIN config.d) \ masked |-> config.d[key]]
           /\ callResult.log = <<"_systemConfig", "clearCache">>
           /\ \A name \in SeqRange(GetAttr(classes, callResult.cls, "cacheItems", <<>>)) :
                 name \notin DOMAIN obj.attrs

\* An instance of a class that declares one mask key and inherits another
\* was constructed from a configuration that holds both.
C10_Witness ==
    /\ callResult.op = "construct"
    /\ callResult.ok
    /\ AttrsGet(classes[callResult.cls].own, "maskKeys", {}) = {"b"}
    /\ DeclaredMaskKeys(callResult.cls) = {"a", "b"}
    /\ DOMAIN callResult.args[1].d = {"a", "b"}

-----------------------------------------------------------------------------
(* Cached objects: attributes, reassignment and invalidation               *)

\* The longest cacheItems list.
MaxCacheItems == 2

\* The names cacheItems lists, an attribute it does not list, and the values
\* attributes are given.
CacheNames == {"_c1", "_c2"}
AttrNames == CacheNames \cup {"x"}
AttrValues == {PyStr("10"), PyStr("x")}

\* One subclass of BaseSCCache; it declares cacheItems or inherits the
\* empty list of BaseSCCache.
InitCache ==
    /\ \E attrs \in {EmptyDict} \cup
                      {[x \in {"cacheItems"} |-> l] :
                          l \in UNION {[1..n -> CacheNames] : n \in 0..MaxCacheItems}} :
          classes = Append(ImportedClasses,
                           MetaNew(ImportedClasses, Len(ImportedClasses) + 1,
                                   <<BaseSCCacheId>>, attrs).cls)
    /\ defResult = NoResult
    /\ obj = NoObj
    /\ callResult = NoResult
    /\ filt = [self |-> NoFilter, clslist |-> <<>>]

NewCached ==
    /\ obj = NoObj
    /\ \E d \in Dicts({"a"}, {FValue}) :
          Construct(Len(classes), <<PyDict(ConfigId, d)>>)

\* obj.name = value, for a name other than systemConfig.
Materialise ==
    /\ obj /= NoObj
    /\ \E name \in AttrNames : \E value \in AttrValues :
          /\ obj' = [obj EXCEPT !.attrs = SetAttr(@, name, value)]
          /\ callResult' = [op |-> "setattr", ok |-> TRUE, err |-> ""]
    /\ UNCHANGED <<classes, defResult, filt>>

\* The dicts the caller assigns: a new one, or the one the instance holds.
Reassignable ==
    {PyDict(ConfigId + 2, d) : d \in Dicts({"a"}, {FValue})}
      \cup {obj.attrs["_systemConfig"]}

\* obj.systemConfig = value
Reassign ==
    /\ obj /= NoObj
    /\ \E value \in Reassignable :
       \E self \in {SetSystemConfig(classes, obj.cls, [attrs |-> obj.attrs, log |-> <<>>],
                                    value)} :
          /\ obj' = [obj EXCEPT !.attrs = self.attrs]
          /\ callResult' = [op |-> "reassign", ok |-> TRUE, err |-> "", value |-> value,
                            before |-> obj.attrs, log |-> self.log]
    /\ UNCHANGED <<classes, defResult, filt>>

\* obj.clearCache()
Invalidate ==
    /\ obj /= NoObj
    /\ \E self \in {ClearCache(classes, obj.cls, [attrs |-> obj.attrs, log |-> <<>>])} :
          /\ obj' = [obj EXCEPT !.attrs = self.attrs]
          /\ callResult' = [op |-> "clearCache", ok |-> TRUE, err |-> "",
                            before |-> obj.attrs, log |-> self.log]
    /\ UNCHANGED <<classes, defResult, filt>>

NextCache == NewCached \/ Materialise \/ Reassign \/ Invalidate

SpecCache == InitCache /\ [][NextCache]_vars

-----------------------------------------------------------------------------
(* Claims about invalidation                                               *)

\* self.cacheItems of the instance.
CacheItems == SeqRange(GetAttr(classes, obj.cls, "cacheItems", <<>>))

\* C7: right after the configuration of a cached object is reassigned, no
\* attribute listed in cacheItems is present, the configuration is the value
\* assigned, and every other attribute is present exactly if it was before,
\* with the value it had.
C7_Invalidation ==
    callResult.op = "reassign" =>
       /\ callResult.ok
       /\ \A name \in CacheItems : name \notin DOMAIN obj.attrs
       /\ obj.attrs["_systemConfig"] = callResult.value
       /\ \A name \in (AttrNames \ CacheItems) :
             /\ name \in DOMAIN obj.attrs <=> name \in DOMAIN callResult.before
             /\ name \in DOMAIN obj.attrs => obj.attrs[name] = callResult.before[name]

\* A reassignment found one listed attribute present, another listed one
\* absent and an unlisted attribute present.
C7_Witness ==
    /\ callResult.op = "reassign"
    /\ \E n, m \in CacheItems :
          n \in DOMAIN callResult.before /\ m \notin DOMAIN callResult.before
    /\ "x" \in DOMAIN callResult.before

====
